---- MODULE Spec2Model ----
(***************************************************************************)
(* Model of the review pipeline of yelp-reviews-scraper:                   *)
(*   src/src/extractors/utils_filters.py  (ReviewFilters, apply_filters)   *)
(*   src/src/extractors/yelp_parser.py    (YelpPageParser)                 *)
(*                                                                         *)
(* Python values are modelled as tagged records, so that None, int, str    *)
(* and datetime values stay distinguishable:                               *)
(*   a number-like value  is [t, v]                                        *)
(*        t = "none"      None                                             *)
(*        t = "missing"   the key is not in the dict                       *)
(*        t = "int"       the int v                                        *)
(*        t = "float"     the float v/10                                   *)
(*        t = "str"       the str of the digits of v                       *)
(*        t = "badstr"    a str that is no integer literal                 *)
(*        t = "inf"       the float infinity (JSON Infinity or 1e999)      *)
(*        t = "list"      a list                                           *)
(*   a date-like value    is [t, wall, aware, off]                         *)
(*        t = "none"      None                                             *)
(*        t = "empty"     the empty string                                 *)
(*        t = "bad"       a string dateutil cannot parse                   *)
(*        t = "text"      a string dateutil parses to (wall, aware, off)   *)
(*        t = "datetime"  a datetime object                                *)
(*        t = "other"     a truthy value that is neither str nor datetime  *)
(*   wall is the wall-clock reading, aware says whether the value carries  *)
(*   a UTC offset, off is that offset (same unit as wall).                 *)
(*   a text value         is [t, s]   t = "none" (None) or "str" (the str) *)
(*   a float              is [t |-> "float4", v] for the value v/4, which  *)
(*   a binary float holds exactly; its "%.1f" text is [t |-> "str1f", v]   *)
(*   for the decimal v/10.                                                 *)
(* A call that can raise returns [raised, val].                            *)
(***************************************************************************)
EXTENDS Integers, Sequences, FiniteSets, TLC

\* ------------------------------------------------------------------------
\* Bounds of the model
\* ------------------------------------------------------------------------
MaxContainers == 2
MaxReviews == 2
MaxLabel == 3
MaxElements == 2
MaxUrls == 2

\* ------------------------------------------------------------------------
\* Python values
\* ------------------------------------------------------------------------
RNone == [t |-> "none", v |-> 0]
RInt(n) == [t |-> "int", v |-> n]
RStr(n) == [t |-> "str", v |-> n]
RBadStr == [t |-> "badstr", v |-> 0]
RMissing == [t |-> "missing", v |-> 0]
RFloat(n) == [t |-> "float", v |-> n]
RInf == [t |-> "inf", v |-> 0]
RList == [t |-> "list", v |-> 0]

DNone == [t |-> "none", wall |-> 0, aware |-> FALSE, off |-> 0]
DEmpty == [t |-> "empty", wall |-> 0, aware |-> FALSE, off |-> 0]
DBad == [t |-> "bad", wall |-> 0, aware |-> FALSE, off |-> 0]
DOther == [t |-> "other", wall |-> 0, aware |-> FALSE, off |-> 0]
DText(w, a, o) == [t |-> "text", wall |-> w, aware |-> a, off |-> o]
DTime(w, a, o) == [t |-> "datetime", wall |-> w, aware |-> a, off |-> o]

SNone == [t |-> "none", s |-> ""]
SStr(x) == [t |-> "str", s |-> x]

Ok(x) == [raised |-> FALSE, val |-> x]
Raise(x) == [raised |-> TRUE, val |-> x]

\* the `not x` test of Python on a date-like value
Falsy(d) == d.t \in {"none", "empty"}

\* ------------------------------------------------------------------------
\* utils_filters.py
\* ------------------------------------------------------------------------
\* parse_review_date: dateutil parses the text or raises
parse_review_date(text) ==
  IF text.t = "text"
    THEN Ok(DTime(text.wall, text.aware, text.off))
    ELSE Raise(DNone)

\* datetime.isoformat(): the ISO-8601 text of a datetime, offset included
isoformat(dt) == DText(dt.wall, dt.aware, dt.off)

\* _ensure_datetime
ensure_datetime(value) ==
  IF value.t = "datetime" THEN Ok(value)
  ELSE IF value.t \in {"text", "bad", "empty"} THEN parse_review_date(value)
  ELSE Raise(DNone)

\* datetime.__ge__: comparing an offset-naive with an offset-aware datetime
\* raises TypeError; aware values compare as instants, naive ones by wall time
datetime_ge(a, b) ==
  IF a.aware # b.aware THEN Raise(FALSE)
  ELSE IF a.aware THEN Ok(a.wall - a.off >= b.wall - b.off)
  ELSE Ok(a.wall >= b.wall)

\* int(x) on a settings value: an int is itself, a float (v in tenths) is
\* truncated toward zero, a str of digits is its number; a str that is no
\* integer literal raises ValueError, the float infinity OverflowError, None
\* or a list TypeError
py_int(x) ==
  IF x.t = "int" THEN Ok(x.v)
  ELSE IF x.t = "float"
    THEN Ok(IF x.v >= 0 THEN x.v \div 10 ELSE -((-x.v) \div 10))
  ELSE IF x.t = "str" THEN Ok(x.v)
  ELSE IF x.t = "badstr" THEN Raise("ValueError")
  ELSE IF x.t = "inf" THEN Raise("OverflowError")
  ELSE Raise("TypeError")

\* the min_rating / max_rating block of from_settings: None stays None, int()
\* is tried, and of its exceptions TypeError and ValueError are caught
rating_bound(raw) ==
  IF raw.t \in {"none", "missing"} THEN Ok(RNone)
  ELSE IF ~py_int(raw).raised THEN Ok(RInt(py_int(raw).val))
  ELSE IF py_int(raw).val \in {"TypeError", "ValueError"} THEN Ok(RNone)
  ELSE Raise(py_int(raw).val)

\* the from_date block of from_settings: a falsy value is skipped, str() of
\* the value is parsed, every Exception is caught
from_date_of(raw) ==
  IF Falsy(raw) THEN DNone
  ELSE IF parse_review_date(raw).raised THEN DNone
  ELSE parse_review_date(raw).val

\* ReviewFilters.from_settings
from_settings(settings) ==
  LET lo == rating_bound(settings.min_rating)
      hi == rating_bound(settings.max_rating)
      unset == [min_rating |-> RNone, max_rating |-> RNone, from_date |-> DNone]
  IN IF lo.raised THEN Raise(unset)
     ELSE IF hi.raised THEN Raise(unset)
     ELSE Ok([min_rating |-> lo.val,
              max_rating |-> hi.val,
              from_date |-> from_date_of(settings.from_date)])

\* a plausible slip: a review without an int rating is always kept
passes_rating_filter_open(review, filters) ==
  LET rating == review.latest_reviewer_rating IN
  IF rating.t # "int" THEN TRUE
  ELSE (filters.min_rating.t = "none" \/ rating.v >= filters.min_rating.v)
       /\ (filters.max_rating.t = "none" \/ rating.v <= filters.max_rating.v)

\* _passes_rating_filter
passes_rating_filter(review, filters) ==
  LET rating == review.latest_reviewer_rating IN
  IF rating.t # "int"
    THEN filters.min_rating.t = "none" /\ filters.max_rating.t = "none"
    ELSE IF filters.min_rating.t # "none" /\ rating.v < filters.min_rating.v
      THEN FALSE
    ELSE IF filters.max_rating.t # "none" /\ rating.v > filters.max_rating.v
      THEN FALSE
    ELSE TRUE

\* _passes_date_filter; the final comparison is outside the try block
passes_date_filter(review, filters) ==
  LET date_raw == review.review_date IN
  IF filters.from_date.t = "none" THEN Ok(TRUE)
  ELSE IF Falsy(date_raw) THEN Ok(FALSE)
  ELSE IF ensure_datetime(date_raw).raised THEN Ok(FALSE)
  ELSE datetime_ge(ensure_datetime(date_raw).val, filters.from_date)

\* apply_filters: the loop over the reviews, result accumulated in order;
\* an exception of the date rule leaves the loop and the function
RECURSIVE filter_loop(_, _, _)
filter_loop(reviews, filters, result) ==
  IF reviews = <<>> THEN Ok(result)
  ELSE LET review == Head(reviews) IN
    IF ~passes_rating_filter(review, filters)
      THEN filter_loop(Tail(reviews), filters, result)
    ELSE IF passes_date_filter(review, filters).raised
      THEN Raise(<<>>)
    ELSE IF ~passes_date_filter(review, filters).val
      THEN filter_loop(Tail(reviews), filters, result)
    ELSE filter_loop(Tail(reviews), filters, Append(result, review))

\* a plausible slip: the result is built newest first (insert at the front)
RECURSIVE filter_loop_reversed(_, _, _)
filter_loop_reversed(reviews, filters, result) ==
  IF reviews = <<>> THEN Ok(result)
  ELSE LET review == Head(reviews) IN
    IF ~passes_rating_filter(review, filters)
      THEN filter_loop_reversed(Tail(reviews), filters, result)
    ELSE IF passes_date_filter(review, filters).raised
      THEN Raise(<<>>)
    ELSE IF ~passes_date_filter(review, filters).val
      THEN filter_loop_reversed(Tail(reviews), filters, result)
    ELSE filter_loop_reversed(Tail(reviews), filters, <<review>> \o result)

apply_filters_reversed(reviews, filters) ==
  filter_loop_reversed(reviews, filters, <<>>)

\* a plausible slip: the loop starts at the second review
apply_filters_skip_first(reviews, filters) ==
  IF reviews = <<>> THEN Ok(<<>>)
  ELSE filter_loop(Tail(reviews), filters, <<>>)

apply_filters(reviews, filters) == filter_loop(reviews, filters, <<>>)

\* ------------------------------------------------------------------------
\* yelp_parser.py
\* ------------------------------------------------------------------------
DefaultMaxReviews == 200

\* reviews[:n], the slice of Python: a negative n counts from the end
Slice(reviews, n) ==
  LET len == Len(reviews)
      stop == IF n >= 0 THEN (IF n < len THEN n ELSE len)
              ELSE (IF len + n > 0 THEN len + n ELSE 0)
  IN SubSeq(reviews, 1, stop)

\* f"{x:.1f}" of the float x = q/4: x*10 = 5q/2 is rounded to the nearest
\* integer, a tie going to the even one
Format1f(q) ==
  LET fl == (5 * q) \div 2
      tie == (5 * q) % 2 = 1
  IN IF tie /\ fl % 2 = 1 THEN fl + 1 ELSE fl

\* _parse_business_info: the six business strategies (their results are the
\* fields of soup.business) and the url make the BusinessInfo
parse_business_info(soup, url) ==
  [business_url |-> url,
   business_name |-> soup.business.name,
   average_rating |-> soup.business.rating,
   total_reviews_text |-> soup.business.reviews_text,
   price_range |-> soup.business.price,
   business_address |-> soup.business.address,
   contact_number |-> soup.business.phone]

\* the characters of a label that are decimal digits, with their values
\* A document is the sequence of its elements in document order.  An element
\* is [tag, review_id, class_review, star_descendant]: its tag name, whether
\* it carries a data-review-id attribute, whether its class attribute
\* contains "review", and whether one of its descendants has an aria-label
\* matching "star rating".  A located container is the position of its
\* element in the document.

\* soup.select / soup.find_all: the positions of the elements that match, in
\* document order; matches[i] tells whether element i matches
select_all(matches) ==
  SelectSeq([i \in 1..Len(matches) |-> i], LAMBDA i : matches[i])

\* [data-review-id]
has_review_id(el) == el.review_id

\* li[class*='review']
is_review_li(el) == el.tag = "li" /\ el.class_review

\* a section with a star-rating-labeled descendant
is_star_section(el) == el.tag = "section" /\ el.star_descendant

\* a plausible slip: the results of the three strategies are collected together
locate_review_containers_merged(dom) ==
  select_all([i \in DOMAIN dom |-> \/ has_review_id(dom[i])
                                   \/ is_review_li(dom[i])
                                   \/ is_star_section(dom[i])])

\* YelpPageParser._locate_review_containers
locate_review_containers(dom) ==
  LET by_id == select_all([i \in DOMAIN dom |-> has_review_id(dom[i])])
      by_class == select_all([i \in DOMAIN dom |-> is_review_li(dom[i])])
      by_section == select_all([i \in DOMAIN dom |-> is_star_section(dom[i])])
  IN IF by_id # <<>> THEN by_id
     ELSE IF by_class # <<>> THEN by_class
     ELSE by_section

\* A block (a review container or a response block) is [times, spans]: the
\* stripped texts of its time elements and of its span elements, each in
\* document order.

\* text is empty after get_text(strip=True)
is_blank(text) == text = ""

\* re.search of the month-name pattern, ignoring case
has_month(text) == text \in {"May 5", "May 5, 2023"}

\* re.search of \b20\d{2}\b
has_year(text) == text \in {"1/5/2023", "May 5, 2023"}

\* a loop over elements that returns the first text passing its test, else
\* None; passes[i] tells whether texts[i] passes
first_text(texts, passes) ==
  IF \A i \in DOMAIN texts : ~passes[i] THEN SNone
  ELSE SStr(texts[CHOOSE i \in DOMAIN texts :
                    passes[i] /\ \A j \in 1..(i - 1) : ~passes[j]])

\* the loop over the time elements: the first non-blank text
first_time_text(block) ==
  first_text(block.times, [i \in DOMAIN block.times |-> ~is_blank(block.times[i])])

\* YelpPageParser._extract_review_date_raw
extract_review_date_raw(block) ==
  IF first_time_text(block) # SNone THEN first_time_text(block)
  ELSE first_text(block.spans,
                  [i \in DOMAIN block.spans |->
                     has_month(block.spans[i]) \/ has_year(block.spans[i])])

\* the response date of _extract_business_response, on the response block
response_date_raw(block) ==
  IF first_time_text(block) # SNone THEN first_time_text(block)
  ELSE first_text(block.spans,
                  [i \in DOMAIN block.spans |-> has_month(block.spans[i])])

\* a plausible slip: the records of a URL replace the collection
extend_records_replace(collected, recs) ==
  IF recs = <<>> THEN collected ELSE recs

\* main: if not records, nothing is added; else all_records.extend(records)
extend_records(collected, recs) ==
  IF recs = <<>> THEN collected ELSE collected \o recs

DigitOf(c) ==
  CASE c = "0" -> 0 [] c = "1" -> 1 [] c = "4" -> 4 [] c = "5" -> 5 [] OTHER -> -1
IsDigit(c) == DigitOf(c) >= 0

\* re.search(r"(\d+)", label).group(1): the first maximal run of digits of
\* the label, <<>> when the label has no digit
RECURSIVE digit_run(_)
digit_run(chars) ==
  IF chars = <<>> \/ ~IsDigit(Head(chars)) THEN <<>>
  ELSE <<Head(chars)>> \o digit_run(Tail(chars))

RECURSIVE first_digits(_)
first_digits(chars) ==
  IF chars = <<>> THEN <<>>
  ELSE IF IsDigit(Head(chars)) THEN digit_run(chars)
  ELSE first_digits(Tail(chars))

\* int() of a run of digits
RECURSIVE int_of_digits(_, _)
int_of_digits(digits, acc) ==
  IF digits = <<>> THEN acc
  ELSE int_of_digits(Tail(digits), 10 * acc + DigitOf(Head(digits)))

\* the star-rating element of a container as _extract_reviewer_rating reads
\* it: label.present says whether an element with an aria-label matching
\* "star rating" exists, label.chars is the text of that label before
\* " star rating"; the result is the int of the first digits, None without them
star_label_of(label) ==
  IF ~label.present THEN RNone
  ELSE IF first_digits(label.chars) = <<>> THEN RNone
  ELSE RInt(int_of_digits(first_digits(label.chars), 0))

\* _extract_reviewer_rating: int of the first digits of the star-rating label
extract_reviewer_rating(container) ==
  IF container.star_label.t = "int" THEN RInt(container.star_label.v) ELSE RNone

\* _extract_business_response, its date: the raw text is parsed when present
extract_business_response(container) ==
  IF Falsy(container.response_date_raw) THEN Ok(DNone)
  ELSE IF parse_review_date(container.response_date_raw).raised THEN Raise(DNone)
  ELSE Ok(isoformat(parse_review_date(container.response_date_raw).val))

\* a plausible slip: the date parse is guarded on its own, so that a container
\* with an unparseable date yields a record with the date unset
parse_single_review_partial(container) ==
  LET date_parse == parse_review_date(container.date_raw)
      resp_parse == parse_review_date(container.response_date_raw)
  IN Ok([latest_reviewer_name |-> container.name,
         review_avatar_url |-> SNone,
         latest_reviewer_details |->
           [total_reviews |-> 0, total_friends |-> 0,
            business_photos_uploaded |-> 0],
         latest_reviewer_location |-> SNone,
         latest_reviewer_rating |-> extract_reviewer_rating(container),
         review_date |-> IF date_parse.raised THEN DNone
                         ELSE isoformat(date_parse.val),
         review_text |-> SNone,
         review_media_urls |-> <<>>,
         helpful_count |-> 0,
         thanks_count |-> 0,
         love_this_count |-> 0,
         oh_no_count |-> 0,
         response_author_name |-> SNone,
         response_date |-> IF resp_parse.raised THEN DNone
                           ELSE isoformat(resp_parse.val),
         response_content |-> SNone])

\* _parse_single_review: the review dict of one container, or the exception
\* of one of the two date parses
parse_single_review(container) ==
  LET review_date_raw == container.date_raw
      date_parse == parse_review_date(review_date_raw)
      response == extract_business_response(container)
  IN IF ~Falsy(review_date_raw) /\ date_parse.raised THEN Raise(<<>>)
     ELSE IF response.raised THEN Raise(<<>>)
     ELSE Ok([latest_reviewer_name |-> container.name,
              review_avatar_url |-> SNone,
              latest_reviewer_details |->
                [total_reviews |-> 0, total_friends |-> 0,
                 business_photos_uploaded |-> 0],
              latest_reviewer_location |-> SNone,
              latest_reviewer_rating |-> extract_reviewer_rating(container),
              review_date |-> IF Falsy(review_date_raw) THEN DNone
                              ELSE isoformat(date_parse.val),
              review_text |-> SNone,
              review_media_urls |-> <<>>,
              helpful_count |-> 0,
              thanks_count |-> 0,
              love_this_count |-> 0,
              oh_no_count |-> 0,
              response_author_name |-> SNone,
              response_date |-> response.val,
              response_content |-> SNone])

\* _parse_reviews: the loop over the containers; a container whose
\* extraction raises is skipped
RECURSIVE parse_loop(_, _)
parse_loop(containers, reviews) ==
  IF containers = <<>> THEN reviews
  ELSE LET r == parse_single_review(Head(containers)) IN
    IF r.raised THEN parse_loop(Tail(containers), reviews)
    ELSE parse_loop(Tail(containers), Append(reviews, r.val))

parse_reviews(soup) == parse_loop(soup.containers, <<>>)

\* f"{stars}stars"
StarsKey(stars) == <<"1stars", "2stars", "3stars", "4stars", "5stars">>[stars]

\* the Counter of _build_rating_histogram after the loop: a mapping from the
\* counted ratings to their counts
RECURSIVE count_loop(_, _)
count_loop(reviews, counter) ==
  IF reviews = <<>> THEN counter
  ELSE LET rating == Head(reviews).latest_reviewer_rating IN
    IF rating.t = "int" /\ 1 <= rating.v /\ rating.v <= 5
      THEN count_loop(Tail(reviews),
             [k \in DOMAIN counter \cup {rating.v} |->
                IF k = rating.v
                  THEN (IF k \in DOMAIN counter THEN counter[k] ELSE 0) + 1
                  ELSE counter[k]])
      ELSE count_loop(Tail(reviews), counter)

\* a plausible slip: range(0, 5) instead of range(1, 6) for the counts read
build_rating_histogram_shifted(reviews) ==
  LET counter == count_loop(reviews, [k \in {} |-> 0]) IN
  [key \in {StarsKey(stars) : stars \in 1..5} |->
     LET stars == (CHOOSE n \in 1..5 : StarsKey(n) = key) - 1 IN
     IF stars \in DOMAIN counter THEN counter[stars] ELSE 0]

\* _build_rating_histogram
build_rating_histogram(reviews) ==
  LET counter == count_loop(reviews, [k \in {} |-> 0]) IN
  [key \in {StarsKey(stars) : stars \in 1..5} |->
     LET stars == CHOOSE n \in 1..5 : StarsKey(n) = key IN
     IF stars \in DOMAIN counter THEN counter[stars] ELSE 0]

\* dict.update: the keys of other win
dict_update(record, other) ==
  [k \in DOMAIN record \cup DOMAIN other |->
     IF k \in DOMAIN other THEN other[k] ELSE record[k]]

\* the record of one review in parse_business_page
make_record(business, review_counts_by_rating, review) ==
  dict_update(
    [business_url |-> business.business_url,
     business_name |-> business.business_name,
     average_rating |->
       IF business.average_rating.t # "none"
         THEN [t |-> "str1f", v |-> Format1f(business.average_rating.v)]
         ELSE RNone,
     total_reviews |-> business.total_reviews_text,
     price_range |-> business.price_range,
     business_address |-> business.business_address,
     contact_number |-> business.contact_number,
     review_counts_by_rating |-> review_counts_by_rating],
    review)

\* the max_reviews read of parse_business_page: int(settings.get(.., 200))
read_max_reviews(scraper_settings) ==
  IF scraper_settings.max_reviews.t = "missing" THEN Ok(DefaultMaxReviews)
  ELSE py_int(scraper_settings.max_reviews)

\* the truncation of parse_business_page
truncate(reviews, max_reviews) == Slice(reviews, max_reviews)

\* a plausible slip: the filters run on all extracted reviews and the result
\* is truncated afterwards
filter_then_truncate(reviews, max_reviews, filters) ==
  LET f == apply_filters(reviews, filters) IN
  IF f.raised THEN f ELSE Ok(Slice(f.val, max_reviews))

\* truncation and filter stage of parse_business_page, in the order of the code
truncate_then_filter(reviews, max_reviews, filters) ==
  apply_filters(truncate(reviews, max_reviews), filters)

\* a plausible slip: the histogram is built from the raw extracted list
histogram_of_extracted(all_reviews, reviews) == build_rating_histogram(all_reviews)

\* the histogram stage of parse_business_page: all_reviews is what
\* _parse_reviews returned, reviews what apply_filters returned; the code
\* passes the latter
histogram_stage(all_reviews, reviews) == build_rating_histogram(reviews)

\* a plausible slip: one record dict created before the loop and appended
\* each time, so that every entry is the record of the last review
assemble_shared_record(business, hist, reviews) ==
  [i \in 1..Len(reviews) |-> make_record(business, hist, reviews[Len(reviews)])]

\* the record loop of parse_business_page
assemble(business, hist, reviews) ==
  [i \in 1..Len(reviews) |-> make_record(business, hist, reviews[i])]

\* ------------------------------------------------------------------------
\* Inputs
\* ------------------------------------------------------------------------
Url == "https://www.yelp.com/biz/cafe"

Businesses ==
  { [name |-> SStr("Cafe"), rating |-> [t |-> "float4", v |-> 17],
     reviews_text |-> SStr("12 reviews"), price |-> SStr("$$"),
     address |-> SStr("1 Main St"), phone |-> SStr("555-0100")],
    [name |-> SNone, rating |-> RNone,
     reviews_text |-> SNone, price |-> SNone,
     address |-> SNone, phone |-> SNone] }

Container(label, date, resp) ==
  [name |-> SNone, star_label |-> label, date_raw |-> date,
   response_date_raw |-> resp]

\* containers as the strategies see them: star labels absent, in 1..5 and
\* above 5; date texts absent, unparseable, offset-naive and offset-aware;
\* response dates absent, parseable and unparseable
Containers ==
  { Container(l, DText(3, FALSE, 0), DNone) : l \in {RNone, RInt(3), RInt(5), RInt(7)} }
  \cup { Container(RInt(5), d, DNone) :
           d \in {DNone, DBad, DText(1, FALSE, 0), DText(3, TRUE, 0)} }
  \cup { Container(RInt(3), DText(3, TRUE, 2), DNone),
         Container(RInt(4), DText(3, FALSE, 0), DText(4, FALSE, 0)),
         Container(RInt(4), DText(3, FALSE, 0), DBad) }

RECURSIVE SeqsUpTo(_, _)
SeqsUpTo(S, n) ==
  IF n = 0 THEN {<<>>}
  ELSE LET shorter == SeqsUpTo(S, n - 1) IN
    shorter \cup { Append(q, x) : q \in shorter, x \in S }

Soups ==
  { [business |-> b, containers |-> cs] :
      b \in Businesses, cs \in SeqsUpTo(Containers, MaxContainers) }

\* the "scraper" section of the settings
ScraperSettings ==
  { [max_reviews |-> m, min_rating |-> b[1], max_rating |-> b[2], from_date |-> fd] :
      m \in {RMissing, RInt(0), RInt(1), RInt(-1)},
      b \in {<<RNone, RNone>>, <<RInt(4), RNone>>, <<RNone, RInt(4)>>},
      fd \in {DNone, DText(2, FALSE, 0), DText(2, TRUE, 0)} }
  \cup { [max_reviews |-> m, min_rating |-> RNone, max_rating |-> RNone,
          from_date |-> DNone] : m \in {RNone, RBadStr, RStr(1)} }
  \cup { [max_reviews |-> RMissing, min_rating |-> RBadStr, max_rating |-> RStr(4),
          from_date |-> DBad],
         [max_reviews |-> RFloat(15), min_rating |-> RStr(4), max_rating |-> RMissing,
          from_date |-> DEmpty],
         [max_reviews |-> RMissing, min_rating |-> RNone, max_rating |-> RInf,
          from_date |-> DNone] }

\* review dicts handed to apply_filters and _build_rating_histogram directly:
\* only the two keys these functions read vary
Review(rating, date) ==
  [latest_reviewer_name |-> SNone,
   review_avatar_url |-> SNone,
   latest_reviewer_details |->
     [total_reviews |-> 0, total_friends |-> 0, business_photos_uploaded |-> 0],
   latest_reviewer_location |-> SNone,
   latest_reviewer_rating |-> rating,
   review_date |-> date,
   review_text |-> SNone,
   review_media_urls |-> <<>>,
   helpful_count |-> 0,
   thanks_count |-> 0,
   love_this_count |-> 0,
   oh_no_count |-> 0,
   response_author_name |-> SNone,
   response_date |-> DNone,
   response_content |-> SNone]

Reviews ==
  { Review(r, DText(3, FALSE, 0)) :
      r \in {RNone, RInt(0), RInt(1), RInt(3), RInt(4), RInt(5), RInt(7),
             RStr(4), RFloat(40)} }
  \cup { Review(RInt(4), d) :
      d \in {DNone, DEmpty, DBad, DOther, DText(1, FALSE, 0), DText(2, FALSE, 0),
             DText(3, TRUE, 0), DText(3, TRUE, 2), DTime(3, FALSE, 0),
             DTime(1, TRUE, 0)} }
  \cup { Review(RNone, DNone), Review(RInt(3), DText(3, TRUE, 0)) }

FilterSets ==
  [min_rating : {RNone, RInt(3), RInt(4)},
   max_rating : {RNone, RInt(4), RInt(2)},
   from_date : {DNone, DTime(2, FALSE, 0), DTime(2, TRUE, 0)}]

\* aria-labels of the star-rating element: "5 star rating", "4.5 star
\* rating", "10 star rating", "0 star rating", " star rating", ...
LabelChars == {"0", "1", "4", "5", "."}
Labels == [present : BOOLEAN, chars : SeqsUpTo(LabelChars, MaxLabel)]
NoLabel == [present |-> FALSE, chars |-> <<>>]

\* the elements of a document and the documents
Elements ==
  [tag : {"li", "section", "div"}, review_id : BOOLEAN,
   class_review : BOOLEAN, star_descendant : BOOLEAN]
Doms == SeqsUpTo(Elements, MaxElements)

\* texts of time and span elements: blank, a month name, a year only, both,
\* neither; and the blocks
ElementTexts == {"", "May 5", "1/5/2023", "May 5, 2023", "Reply"}
Blocks ==
  [times : SeqsUpTo(ElementTexts, MaxElements),
   spans : SeqsUpTo(ElementTexts, MaxElements)]
NoBlock == [times |-> <<>>, spans |-> <<>>]

\* the input URLs of a run, the records parse_business_page returns for a
\* URL, and the indent values of the output settings
InputUrls == {"https://www.yelp.com/biz/cafe", "https://www.yelp.com/biz/bar"}
UrlLists == SeqsUpTo(InputUrls, MaxUrls)
RecordsOf(url, count) ==
  [k \in 1..count |-> [business_url |-> url, review |-> k]]
IndentSettings == {RMissing, RInt(4), RBadStr}

\* values of min_rating, max_rating and from_date in a settings file
RatingSettings ==
  {RMissing, RNone, RInt(4), RStr(3), RFloat(47), RBadStr, RList, RInf}
DateSettings ==
  {DNone, DEmpty, DText(2, FALSE, 0), DText(2, TRUE, 1), DBad, DOther}
FilterSettings ==
  [max_reviews : {RMissing}, min_rating : RatingSettings,
   max_rating : RatingSettings, from_date : DateSettings]

\* ------------------------------------------------------------------------
\* State
\* ------------------------------------------------------------------------
VARIABLES
  scraper_settings,  \* YelpPageParser.scraper_settings
  status,            \* outcome of the parse_business_page call
  soup,              \* the document of the call
  business,          \* its BusinessInfo
  extracted,         \* reviews as returned by _parse_reviews
  truncated,         \* reviews after reviews[:max_reviews]
  filters,           \* the ReviewFilters of the call
  filtered,          \* reviews after apply_filters
  histogram,         \* review_counts_by_rating
  records,           \* the list the call returns
  arg_reviews,       \* direct calls: the reviews argument
  arg_filters,       \* direct calls: the filters argument
  calls,             \* direct calls made so far
  ret_filtered,      \* result of apply_filters(arg_reviews, arg_filters)
  ret_refiltered,    \* result of apply_filters on that result
  ret_histogram,     \* result of _build_rating_histogram(arg_reviews)
  called,            \* strategy calls: the function called, "none" before
  arg_label,         \* the star-rating label of the container passed
  ret_rating,        \* result of _extract_reviewer_rating
  arg_settings,      \* the settings passed to from_settings
  ret_settings,      \* result of ReviewFilters.from_settings
  arg_dom,           \* the document passed to _locate_review_containers
  ret_containers,    \* result of _locate_review_containers
  arg_block,         \* the response block of _extract_business_response
  ret_response_date, \* response_date_raw of _extract_business_response
  ret_review_date,   \* result of _extract_review_date_raw on the same block
  pc,                \* position of main
  urls,              \* the input URLs of main
  indent_setting,    \* output.indent of the settings
  idx,               \* enumerate index of the URL loop
  url_results,       \* what parse_business_page did for each URL so far
  all_records,       \* all_records of main
  export_calls       \* calls of export_to_json, with their records

pipeline_vars == <<scraper_settings, status, soup, business, extracted,
                   truncated, filters, filtered, histogram, records>>
direct_vars == <<arg_reviews, arg_filters, calls, ret_filtered, ret_refiltered,
                 ret_histogram>>
rating_vars == <<arg_label, ret_rating>>
settings_vars == <<arg_settings, ret_settings>>
locate_vars == <<arg_dom, ret_containers>>
date_vars == <<arg_block, ret_response_date, ret_review_date>>
strategy_vars == <<called, rating_vars, settings_vars, locate_vars, date_vars>>
runner_vars ==
  <<pc, urls, indent_setting, idx, url_results, all_records, export_calls>>
other_vars == <<strategy_vars, runner_vars>>
vars == <<pipeline_vars, direct_vars, other_vars>>

NoSoup == [business |-> CHOOSE b \in Businesses : b.name.t = "none",
           containers |-> <<>>]
NoBusiness == parse_business_info(NoSoup, Url)
NoFilters == [min_rating |-> RNone, max_rating |-> RNone, from_date |-> DNone]
NoHistogram == build_rating_histogram(<<>>)
NoSettings == [max_reviews |-> RMissing, min_rating |-> RNone,
               max_rating |-> RNone, from_date |-> DNone]

\* nothing parsed yet
PipelineIdle ==
  /\ status = "idle"
  /\ soup = NoSoup
  /\ business = NoBusiness
  /\ extracted = <<>>
  /\ truncated = <<>>
  /\ filters = NoFilters
  /\ filtered = <<>>
  /\ histogram = NoHistogram
  /\ records = <<>>

\* no direct call made yet
DirectIdle ==
  /\ calls = {}
  /\ ret_filtered = Ok(<<>>)
  /\ ret_refiltered = Ok(<<>>)
  /\ ret_histogram = NoHistogram

\* no strategy called yet
StrategyIdle ==
  /\ called = "none"
  /\ arg_label = NoLabel
  /\ ret_rating = RNone
  /\ arg_settings = NoSettings
  /\ ret_settings = Ok(NoFilters)
  /\ arg_dom = <<>>
  /\ ret_containers = <<>>
  /\ arg_block = NoBlock
  /\ ret_response_date = SNone
  /\ ret_review_date = SNone

\* main has not been entered
RunnerIdle ==
  /\ pc = "idle"
  /\ urls = <<>>
  /\ indent_setting = RMissing
  /\ idx = 1
  /\ url_results = <<>>
  /\ all_records = <<>>
  /\ export_calls = <<>>

OtherIdle == StrategyIdle /\ RunnerIdle

\* YelpPageParser.__init__: the settings are stored, nothing is parsed yet
Init ==
  /\ scraper_settings \in ScraperSettings
  /\ PipelineIdle
  /\ arg_reviews = <<>>
  /\ arg_filters = NoFilters
  /\ DirectIdle
  /\ OtherIdle

\* parse_business_page when _fetch_html raises: nothing is parsed.
\* A call reads only its argument and self.scraper_settings, so a behaviour
\* follows one call.
FetchFails ==
  /\ status = "idle"
  /\ status' = "fetch_error"
  /\ UNCHANGED <<scraper_settings, soup, business, extracted, truncated,
                 filters, filtered, histogram, records>>
  /\ UNCHANGED direct_vars
  /\ UNCHANGED other_vars

\* parse_business_page on a fetched document: business, reviews, max_reviews,
\* truncation, filters, histogram, records, in the order of the code; an
\* exception ends the call where it is raised
ParseBusinessPage(doc) ==
  LET b == parse_business_info(doc, Url)
      revs == parse_reviews(doc)
      mr == read_max_reviews(scraper_settings)
      tr == truncate(revs, mr.val)
      fs == from_settings(scraper_settings)
      fl == truncate_then_filter(revs, mr.val, fs.val)
      hist == histogram_stage(revs, fl.val)
  IN /\ status = "idle"
     /\ soup' = doc
     /\ business' = b
     /\ extracted' = revs
     /\ UNCHANGED scraper_settings
     /\ UNCHANGED direct_vars
     /\ UNCHANGED other_vars
     /\ IF mr.raised
          THEN /\ status' = "max_reviews_error"
               /\ UNCHANGED <<truncated, filters, filtered, histogram, records>>
        ELSE IF fs.raised
          THEN /\ status' = "settings_error"
               /\ truncated' = tr
               /\ UNCHANGED <<filters, filtered, histogram, records>>
        ELSE IF fl.raised
          THEN /\ status' = "filter_error"
               /\ truncated' = tr
               /\ filters' = fs.val
               /\ UNCHANGED <<filtered, histogram, records>>
        ELSE /\ status' = "ok"
             /\ truncated' = tr
             /\ filters' = fs.val
             /\ filtered' = fl.val
             /\ histogram' = hist
             /\ records' = assemble(b, hist, fl.val)

Next ==
  \/ FetchFails
  \/ \E doc \in Soups : ParseBusinessPage(doc)

Spec == Init /\ [][Next]_vars

\* ------------------------------------------------------------------------
\* Direct calls of the pure functions, on arbitrary review dicts
\* ------------------------------------------------------------------------
InitDirect ==
  /\ scraper_settings = NoSettings
  /\ PipelineIdle
  /\ arg_reviews \in SeqsUpTo(Reviews, MaxReviews)
  /\ arg_filters \in FilterSets
  /\ DirectIdle
  /\ OtherIdle

\* apply_filters(arg_reviews, arg_filters)
CallApplyFilters ==
  /\ "apply_filters" \notin calls
  /\ calls' = calls \cup {"apply_filters"}
  /\ ret_filtered' = apply_filters(arg_reviews, arg_filters)
  /\ UNCHANGED <<arg_reviews, arg_filters, ret_refiltered, ret_histogram>>
  /\ UNCHANGED pipeline_vars
  /\ UNCHANGED other_vars

\* apply_filters(apply_filters(arg_reviews, arg_filters), arg_filters): the
\* outer call runs when the inner one has returned
CallApplyFiltersAgain ==
  /\ "apply_filters" \in calls
  /\ "apply_filters_again" \notin calls
  /\ calls' = calls \cup {"apply_filters_again"}
  /\ ret_refiltered' = IF ret_filtered.raised THEN ret_filtered
                        ELSE apply_filters(ret_filtered.val, arg_filters)
  /\ UNCHANGED <<arg_reviews, arg_filters, ret_filtered, ret_histogram>>
  /\ UNCHANGED pipeline_vars
  /\ UNCHANGED other_vars

\* _build_rating_histogram(arg_reviews)
CallBuildHistogram ==
  /\ "build_rating_histogram" \notin calls
  /\ calls' = calls \cup {"build_rating_histogram"}
  /\ ret_histogram' = build_rating_histogram(arg_reviews)
  /\ UNCHANGED <<arg_reviews, arg_filters, ret_filtered, ret_refiltered>>
  /\ UNCHANGED pipeline_vars
  /\ UNCHANGED other_vars

NextDirect ==
  \/ CallApplyFilters
  \/ CallApplyFiltersAgain
  \/ CallBuildHistogram

SpecDirect == InitDirect /\ [][NextDirect]_vars

\* ------------------------------------------------------------------------
\* Calls of single strategies; a behaviour follows one call
\* ------------------------------------------------------------------------
InitStrategies ==
  /\ scraper_settings = NoSettings
  /\ PipelineIdle
  /\ arg_reviews = <<>>
  /\ arg_filters = NoFilters
  /\ DirectIdle
  /\ OtherIdle

\* _extract_reviewer_rating on a container with the star-rating label
CallExtractReviewerRating(label) ==
  /\ called = "none"
  /\ called' = "extract_reviewer_rating"
  /\ arg_label' = label
  /\ ret_rating' = extract_reviewer_rating(
                     Container(star_label_of(label), DNone, DNone))
  /\ UNCHANGED <<pipeline_vars, direct_vars, runner_vars, settings_vars,
                 locate_vars, date_vars>>

\* ReviewFilters.from_settings(settings)
CallFromSettings(settings) ==
  /\ called = "none"
  /\ called' = "from_settings"
  /\ arg_settings' = settings
  /\ ret_settings' = from_settings(settings)
  /\ UNCHANGED <<pipeline_vars, direct_vars, runner_vars, rating_vars,
                 locate_vars, date_vars>>

\* YelpPageParser._locate_review_containers(soup)
CallLocateReviewContainers(dom) ==
  /\ called = "none"
  /\ called' = "locate_review_containers"
  /\ arg_dom' = dom
  /\ ret_containers' = locate_review_containers(dom)
  /\ UNCHANGED <<pipeline_vars, direct_vars, runner_vars, rating_vars,
                 settings_vars, date_vars>>

\* the response date of _extract_business_response on a response block, and
\* _extract_review_date_raw on the same block
CallResponseDate(block) ==
  /\ called = "none"
  /\ called' = "response_date"
  /\ arg_block' = block
  /\ ret_response_date' = response_date_raw(block)
  /\ ret_review_date' = extract_review_date_raw(block)
  /\ UNCHANGED <<pipeline_vars, direct_vars, runner_vars, rating_vars,
                 settings_vars, locate_vars>>

\* one strategy is called per behaviour; the guard of the calls is tested
\* before their arguments are drawn
NextStrategies ==
  \/ called = "none" /\ \E label \in Labels : CallExtractReviewerRating(label)
  \/ called = "none" /\ \E settings \in FilterSettings : CallFromSettings(settings)
  \/ called = "none" /\ \E dom \in Doms : CallLocateReviewContainers(dom)
  \/ called = "none" /\ \E block \in Blocks : CallResponseDate(block)

SpecStrategies == InitStrategies /\ [][NextStrategies]_vars

\* ------------------------------------------------------------------------
\* runner.main: the loop over the input URLs and the export
\* ------------------------------------------------------------------------
InitRunner ==
  /\ scraper_settings = NoSettings
  /\ PipelineIdle
  /\ arg_reviews = <<>>
  /\ arg_filters = NoFilters
  /\ DirectIdle
  /\ StrategyIdle
  /\ pc = "start"
  /\ urls \in UrlLists
  /\ indent_setting \in IndentSettings
  /\ idx = 1
  /\ url_results = <<>>
  /\ all_records = <<>>
  /\ export_calls = <<>>

\* if not urls: return; else the parser is built and the loop entered
CheckUrls ==
  /\ pc = "start"
  /\ pc' = IF urls = <<>> THEN "done" ELSE "loop"
  /\ UNCHANGED <<urls, indent_setting, idx, url_results, all_records,
                 export_calls>>
  /\ UNCHANGED <<pipeline_vars, direct_vars, strategy_vars>>

\* one iteration in which parse_business_page raises: logged, continue
ProcessUrlRaises ==
  /\ pc = "loop"
  /\ idx <= Len(urls)
  /\ url_results' = Append(url_results, Raise(<<>>))
  /\ idx' = idx + 1
  /\ UNCHANGED <<pc, urls, indent_setting, all_records, export_calls>>
  /\ UNCHANGED <<pipeline_vars, direct_vars, strategy_vars>>

\* one iteration in which parse_business_page returns count records
ProcessUrl(count) ==
  /\ pc = "loop"
  /\ idx <= Len(urls)
  /\ url_results' = Append(url_results, Ok(RecordsOf(urls[idx], count)))
  /\ all_records' = extend_records(all_records, RecordsOf(urls[idx], count))
  /\ idx' = idx + 1
  /\ UNCHANGED <<pc, urls, indent_setting, export_calls>>
  /\ UNCHANGED <<pipeline_vars, direct_vars, strategy_vars>>

\* the loop is exhausted: if not all_records: return
EndLoop ==
  /\ pc = "loop"
  /\ idx > Len(urls)
  /\ pc' = IF all_records = <<>> THEN "done" ELSE "output"
  /\ UNCHANGED <<urls, indent_setting, idx, url_results, all_records,
                 export_calls>>
  /\ UNCHANGED <<pipeline_vars, direct_vars, strategy_vars>>

\* int(output_cfg.get("indent", 2)) raises out of main, or export_to_json is
\* called; it returns or raises OSError, which is caught
Export(written) ==
  /\ pc = "output"
  /\ IF indent_setting.t # "missing" /\ py_int(indent_setting).raised
       THEN /\ pc' = "crashed"
            /\ UNCHANGED export_calls
       ELSE /\ pc' = IF written THEN "done" ELSE "export_failed"
            /\ export_calls' = Append(export_calls, all_records)
  /\ UNCHANGED <<urls, indent_setting, idx, url_results, all_records>>
  /\ UNCHANGED <<pipeline_vars, direct_vars, strategy_vars>>

NextRunner ==
  \/ CheckUrls
  \/ ProcessUrlRaises
  \/ \E count \in 0..MaxReviews : ProcessUrl(count)
  \/ EndLoop
  \/ \E written \in BOOLEAN : Export(written)

SpecRunner == InitRunner /\ [][NextRunner]_vars

\* ------------------------------------------------------------------------
\* Vocabulary of the claims
\* ------------------------------------------------------------------------
ReviewKeys ==
  {"latest_reviewer_name", "review_avatar_url", "latest_reviewer_details",
   "latest_reviewer_location", "latest_reviewer_rating", "review_date",
   "review_text", "review_media_urls", "helpful_count", "thanks_count",
   "love_this_count", "oh_no_count", "response_author_name", "response_date",
   "response_content"}

HistogramKeys == {"1stars", "2stars", "3stars", "4stars", "5stars"}

\* the review fields of an output record
ReviewOf(record) == [k \in ReviewKeys |-> record[k]]

\* the rating rule as stated
RatingRule(review, f) ==
  LET r == review.latest_reviewer_rating IN
  IF r.t = "int"
    THEN /\ (f.min_rating.t = "none" \/ r.v >= f.min_rating.v)
         /\ (f.max_rating.t = "none" \/ r.v <= f.max_rating.v)
    ELSE f.min_rating.t = "none" /\ f.max_rating.t = "none"

\* the point in time of a date: an offset-less one is read as offset 0
Instant(d) == d.wall - d.off

\* the date rule as stated
DateRule(review, f) ==
  LET d == review.review_date IN
  IF f.from_date.t = "none" THEN TRUE
  ELSE IF d.t \in {"none", "empty"} THEN FALSE
  ELSE IF d.t \in {"bad", "other"} THEN FALSE
  ELSE Instant(d) >= Instant(f.from_date)

\* the reviews of s that both rules keep
Kept(s, f) ==
  LET Test(r) == RatingRule(r, f) /\ DateRule(r, f) IN SelectSeq(s, Test)

\* s is a subsequence of t
RECURSIVE IsSubseq(_, _)
IsSubseq(s, t) ==
  IF s = <<>> THEN TRUE
  ELSE IF t = <<>> THEN FALSE
  ELSE IF Head(s) = Head(t) THEN IsSubseq(Tail(s), Tail(t))
  ELSE IsSubseq(s, Tail(t))

\* number of reviews of s with the int rating n
CountRating(s, n) ==
  Cardinality({i \in 1..Len(s) : s[i].latest_reviewer_rating = RInt(n)})

\* the configured max_reviews when it is an int (200 when the key is absent)
ConfiguredMax ==
  IF scraper_settings.max_reviews.t = "missing" THEN DefaultMaxReviews
  ELSE scraper_settings.max_reviews.v
MaxIsInt == scraper_settings.max_reviews.t \in {"missing", "int"}

\* the first n elements of s, n >= 0
FirstN(s, n) == [i \in 1..(IF n < Len(s) THEN n ELSE Len(s)) |-> s[i]]

FilterReturned == "apply_filters" \in calls /\ ~ret_filtered.raised

\* ------------------------------------------------------------------------
\* Claims
\* ------------------------------------------------------------------------

\* C1: for an int max_reviews >= 0, the reviews of the output records are
\* exactly the reviews among the first max_reviews extracted reviews that the
\* filters keep (truncation runs before the filters).
C1_TruncateBeforeFilter ==
  (status = "ok" /\ MaxIsInt /\ ConfiguredMax >= 0) =>
    /\ truncated = FirstN(extracted, ConfiguredMax)
    /\ [i \in 1..Len(records) |-> ReviewOf(records[i])]
         = Kept(FirstN(extracted, ConfiguredMax), filters)

\* a call where a review behind the cut would have passed the filters while
\* one before the cut did not
C1_Witness ==
  /\ status = "ok" /\ MaxIsInt /\ ConfiguredMax = 1
  /\ Len(extracted) = 2
  /\ filters.min_rating.t = "int"
  /\ Kept(<<extracted[1]>>, filters) = <<>>
  /\ Kept(<<extracted[2]>>, filters) # <<>>
  /\ records = <<>>

\* C2: in a returned result of apply_filters every review satisfies the
\* rating rule (int rating within the set bounds; no int rating only when no
\* bound is set), and with from_date unset the result is exactly the reviews
\* that satisfy it.
C2_RatingRule ==
  FilterReturned =>
    /\ \A i \in 1..Len(ret_filtered.val) :
         RatingRule(ret_filtered.val[i], arg_filters)
    /\ arg_filters.from_date.t = "none" =>
         ret_filtered.val
           = LET Test(r) == RatingRule(r, arg_filters) IN SelectSeq(arg_reviews, Test)

\* a review without an int rating dropped under a rating bound, next to an
\* int rating that is kept
C2_Witness ==
  /\ FilterReturned
  /\ arg_filters.min_rating = RInt(3) /\ arg_filters.max_rating = RNone
  /\ Len(arg_reviews) = 2
  /\ arg_reviews[1].latest_reviewer_rating = RNone
  /\ arg_reviews[2].latest_reviewer_rating = RInt(4)
  /\ ret_filtered.val = <<arg_reviews[2]>>

\* C3: apply_filters returns, and what it returns is the reviews that satisfy
\* the rating rule and the date rule (with from_date set: a date that is
\* present, parseable and on or after from_date, whatever its form).
C3_DateRule ==
  "apply_filters" \in calls =>
    /\ ~ret_filtered.raised
    /\ ret_filtered.val = Kept(arg_reviews, arg_filters)

\* C4: what apply_filters returns is a subsequence of its argument, and a call
\* changes neither the argument nor the filters.
C4_Subsequence ==
  [][/\ arg_reviews' = arg_reviews
     /\ arg_filters' = arg_filters
     /\ ("apply_filters" \in calls' /\ ~ret_filtered'.raised) =>
          IsSubseq(ret_filtered'.val, arg_reviews')]_vars

\* two different reviews kept, in the order of the argument
C4_Witness ==
  /\ FilterReturned
  /\ Len(arg_reviews) = 2 /\ arg_reviews[1] # arg_reviews[2]
  /\ ret_filtered.val = arg_reviews

\* C5: apply_filters(apply_filters(r, f), f) = apply_filters(r, f).
C5_Idempotent ==
  "apply_filters_again" \in calls => ret_refiltered = ret_filtered

\* the second call made on a result that kept one review and dropped another
C5_Witness ==
  /\ "apply_filters_again" \in calls
  /\ ~ret_filtered.raised
  /\ Len(arg_reviews) = 2 /\ Len(ret_filtered.val) = 1
  /\ ret_refiltered.val = ret_filtered.val

\* C6: the histogram has exactly the five keys, each bucket counts the reviews
\* whose rating is that int, and nothing else is counted.
C6_Histogram ==
  "build_rating_histogram" \in calls =>
    /\ DOMAIN ret_histogram = HistogramKeys
    /\ \A n \in 1..5 : ret_histogram[StarsKey(n)] = CountRating(arg_reviews, n)
    /\ ret_histogram["1stars"] + ret_histogram["2stars"] + ret_histogram["3stars"]
         + ret_histogram["4stars"] + ret_histogram["5stars"]
       = Cardinality({i \in 1..Len(arg_reviews) :
           /\ arg_reviews[i].latest_reviewer_rating.t = "int"
           /\ arg_reviews[i].latest_reviewer_rating.v \in 1..5})
    /\ arg_reviews = <<>> => \A k \in HistogramKeys : ret_histogram[k] = 0

\* a counted review next to one whose rating is out of range or no int
C6_Witness ==
  /\ "build_rating_histogram" \in calls
  /\ Len(arg_reviews) = 2
  /\ arg_reviews[1].latest_reviewer_rating = RInt(1)
  /\ arg_reviews[2].latest_reviewer_rating \in {RInt(0), RInt(7), RStr(4), RFloat(40)}
  /\ ret_histogram["1stars"] = 1

\* C7: every output record carries the same histogram, and its buckets count
\* exactly the ratings of the output records.
C7_HistogramOfOutput ==
  status = "ok" =>
    /\ \A i \in 1..Len(records) : records[i].review_counts_by_rating = histogram
    /\ \A n \in 1..5 : histogram[StarsKey(n)] = CountRating(records, n)

\* a call where a review with a rating in 1..5 was extracted and filtered out
C7_Witness ==
  /\ status = "ok"
  /\ Len(extracted) = 2 /\ Len(truncated) = 2 /\ Len(records) = 1
  /\ \E i \in 1..2 : /\ extracted[i].latest_reviewer_rating = RInt(3)
                       /\ histogram["3stars"] = 0
  /\ records[1].review_counts_by_rating["5stars"] = 1

\* the business-level fields of a record other than average_rating
BusinessFieldsKept(record) ==
  /\ record.business_url = business.business_url
  /\ record.business_name = business.business_name
  /\ record.total_reviews = business.total_reviews_text
  /\ record.price_range = business.price_range
  /\ record.business_address = business.business_address
  /\ record.contact_number = business.contact_number

\* one record per filtered review, in order, with the review's fields
OneRecordPerReview ==
  /\ Len(records) = Len(filtered)
  /\ \A i \in 1..Len(records) : ReviewOf(records[i]) = filtered[i]

\* C8 as stated: one record per filtered review, in order, and every
\* business-level field of a record, average_rating included, has the value
\* it has in the BusinessInfo.
C8_Original ==
  status = "ok" =>
    /\ OneRecordPerReview
    /\ \A i \in 1..Len(records) :
         /\ BusinessFieldsKept(records[i])
         /\ IF business.average_rating.t = "none"
              THEN records[i].average_rating.t = "none"
              ELSE /\ records[i].average_rating.t # "none"
                   /\ 4 * records[i].average_rating.v
                        = 10 * business.average_rating.v

\* C8 amended: as C8, but average_rating is the text of the BusinessInfo's
\* average rating rounded to one decimal (within 0.05 of it), absent when
\* that is absent; the histogram is not overwritten either.
C8_Records ==
  status = "ok" =>
    /\ OneRecordPerReview
    /\ \A i \in 1..Len(records) :
         /\ BusinessFieldsKept(records[i])
         /\ records[i].review_counts_by_rating = histogram
         /\ IF business.average_rating.t = "none"
              THEN records[i].average_rating.t = "none"
              ELSE /\ records[i].average_rating.t = "str1f"
                   /\ 2 * records[i].average_rating.v - 5 * business.average_rating.v
                        \in {-1, 0, 1}

\* two records of different reviews for a business rated 4.25
C8_Witness ==
  /\ status = "ok"
  /\ Len(records) = 2
  /\ ReviewOf(records[1]) # ReviewOf(records[2])
  /\ business.average_rating.v = 17
  /\ records[1].average_rating = [t |-> "str1f", v |-> 42]

\* a container whose two date texts are absent or parseable
Extractable(c) ==
  /\ c.date_raw.t \in {"none", "text"}
  /\ c.response_date_raw.t \in {"none", "text"}

\* C9: the extracted reviews are, in document order, those of the containers
\* whose date texts are absent or parseable; a container with an unparseable
\* date text gives no record, an absent date text gives an absent date.
C9_ContainerSkipped ==
  status \notin {"idle", "fetch_error"} =>
    LET good == SelectSeq(soup.containers, Extractable) IN
    /\ Len(extracted) = Len(good)
    /\ \A i \in 1..Len(extracted) :
         /\ extracted[i].latest_reviewer_rating = good[i].star_label
         /\ extracted[i].review_date.t = good[i].date_raw.t
         /\ extracted[i].review_date.wall = good[i].date_raw.wall
         /\ extracted[i].response_date.t = good[i].response_date_raw.t
         /\ extracted[i].response_date.wall = good[i].response_date_raw.wall

\* a container with an unparseable date followed by one without a date text
C9_Witness ==
  /\ status = "ok"
  /\ Len(soup.containers) = 2
  /\ soup.containers[1].date_raw.t = "bad"
  /\ soup.containers[2].date_raw.t = "none"
  /\ Len(extracted) = 1
  /\ extracted[1].review_date = DNone

\* the limit a call applies: the configured max_reviews as int(), and the
\* default when it cannot be read
MaxLimit ==
  IF read_max_reviews(scraper_settings).raised THEN DefaultMaxReviews
  ELSE read_max_reviews(scraper_settings).val

\* C10: for a fetched document the call returns, and every extracted review
\* within the first max_reviews that satisfies the filters on its own is in
\* the output.
C10_BlastRadius ==
  status \notin {"idle", "fetch_error"} =>
    /\ status = "ok"
    /\ \A k \in 1..Len(extracted) :
         (k <= MaxLimit
            /\ Kept(<<extracted[k]>>, from_settings(scraper_settings).val) # <<>>) =>
           \E j \in 1..Len(records) : ReviewOf(records[j]) = extracted[k]

\* C11: the reviewer rating _extract_reviewer_rating returns is absent or an
\* int in 1..5, for every star-rating label.
C11_RatingInRange ==
  called = "extract_reviewer_rating" =>
    \/ ret_rating = RNone
    \/ ret_rating.t = "int" /\ ret_rating.v \in 1..5

\* what the claim expects of a configured rating bound: absent or malformed
\* gives unset, an int, a str of digits or a finite float gives its int
ExpectedBound(raw) ==
  CASE raw.t \in {"int", "str"} -> RInt(raw.v)
    [] raw.t = "float" -> RInt(raw.v \div 10)
    [] OTHER -> RNone

\* what the claim expects of a configured from_date
ExpectedFromDate(raw) ==
  IF raw.t = "text" THEN DTime(raw.wall, raw.aware, raw.off) ELSE DNone

\* C12: from_settings returns for every settings value, and each of the three
\* filters is unset when absent or malformed and has its value otherwise,
\* whatever the other two are.
C12_FromSettings ==
  called = "from_settings" =>
    /\ ~ret_settings.raised
    /\ ret_settings.val.min_rating = ExpectedBound(arg_settings.min_rating)
    /\ ret_settings.val.max_rating = ExpectedBound(arg_settings.max_rating)
    /\ ret_settings.val.from_date = ExpectedFromDate(arg_settings.from_date)

\* the elements each strategy matches, and the set the cascade chooses
WithReviewId == {i \in DOMAIN arg_dom : arg_dom[i].review_id}
ReviewListItems ==
  {i \in DOMAIN arg_dom : arg_dom[i].tag = "li" /\ arg_dom[i].class_review}
StarSections ==
  {i \in DOMAIN arg_dom :
     arg_dom[i].tag = "section" /\ arg_dom[i].star_descendant}
FirstNonEmpty ==
  IF WithReviewId # {} THEN WithReviewId
  ELSE IF ReviewListItems # {} THEN ReviewListItems
  ELSE StarSections

C14_SameDateStrategy ==
  called = "response_date" => ret_response_date = ret_review_date

\* the records of the URLs processed so far whose processing succeeded, in
\* input-URL order
RECURSIVE SucceededRecords(_)
SucceededRecords(results) ==
  IF results = <<>> THEN <<>>
  ELSE SucceededRecords(SubSeq(results, 1, Len(results) - 1))
         \o (IF results[Len(results)].raised THEN <<>>
             ELSE results[Len(results)].val)

\* C15: an exception while processing one URL skips only that URL and every
\* later URL is still processed; the collected records are the concatenation,
\* in input-URL order, of the records of the URLs that succeeded; and
\* export_to_json is called at most once, only with a non-empty collection.
C15_Independent ==
  pc # "idle" =>
    /\ Len(url_results) = idx - 1
    /\ \A k \in DOMAIN url_results :
         \A j \in DOMAIN url_results[k].val :
           url_results[k].val[j].business_url = urls[k]
    /\ all_records = SucceededRecords(url_results)
    /\ (pc \notin {"start", "loop"} /\ urls # <<>>) =>
         Len(url_results) = Len(urls)
    /\ Len(export_calls) <= 1
    /\ \A k \in DOMAIN export_calls :
         export_calls[k] # <<>> /\ export_calls[k] = all_records

\* the first URL raised, a later one gave records, and the records were
\* exported
C15_Witness ==
  /\ pc = "done"
  /\ Len(urls) = MaxUrls
  /\ url_results[1].raised
  /\ \E k \in DOMAIN url_results :
       k > 1 /\ ~url_results[k].raised /\ url_results[k].val # <<>>
  /\ Len(export_calls) = 1

\* C16: for every int max_reviews of the settings, zero and negative included,
\* parse_business_page returns at most max(max_reviews, 0) records.
C16_AtMostMaxReviews ==
  (status = "ok" /\ scraper_settings.max_reviews.t = "int") =>
    Len(records) <= (IF scraper_settings.max_reviews.v > 0
                       THEN scraper_settings.max_reviews.v ELSE 0)

====
